---------------------------- MODULE Spec2Model ----------------------------
(***************************************************************************)
(* Model of mozilla_django_oidc/views.py: the three class-based views of    *)
(* the relying party (authentication request, authentication callback,     *)
(* logout) acting on one user agent's Django session.                       *)
(*                                                                         *)
(* request.session is a dictionary: a function whose DOMAIN is the set of   *)
(* keys present.  request.user is derived from the session: the user is    *)
(* authenticated exactly when the session holds "_auth_user_id".            *)
(***************************************************************************)
EXTENDS Integers, FiniteSets, Sequences, TLC

VARIABLES
    settings,   \* the Django settings of the deployment (fixed after start)
    session,    \* request.session of the user agent
    now,        \* time.time()
    last,       \* the last request handled and what its handler did
    issued      \* the nonce the most recent initiation stored, until a
                \* callback arrives (None before and after)

vars == <<settings, session, now, last, issued>>

(***************************************************************************)
(* Bounds.                                                                  *)
(***************************************************************************)
MaxTime == 1

\* Python's None, and the values Python treats as false in `if x:` / `x or y`.
None == "None"
Truthy(v) == v # None /\ v # ""

\* Values get_random_string can return for the state and for the nonce.
States == {"s1", "s2"}
Nonces == {"n1", "n2"}
\* Authorization codes the OP hands out.
Codes == {"c1"}
\* `error` values of a callback query: empty, or an OAuth error code.
Errors == {"", "access_denied"}
\* The host of the relying party (request.get_host()).
RequestHost == "example.com"

(***************************************************************************)
(* Dictionaries.                                                            *)
(***************************************************************************)
EmptyDict == [k \in {} |-> None]
Get(d, k, default) == IF k \in DOMAIN d THEN d[k] ELSE default
Put(d, k, v) == [x \in DOMAIN d \cup {k} |-> IF x = k THEN v ELSE d[x]]
Del(d, k) == [x \in DOMAIN d \ {k} |-> d[x]]
\* dict.update(other)
Update(d, other) ==
    [x \in DOMAIN d \cup DOMAIN other |-> IF x \in DOMAIN other THEN other[x] ELSE d[x]]

\* All dictionaries over the keys of `choices`, a function from each key to
\* the set of values it may take; a key may also be absent.
Dicts(choices) ==
    UNION { [ks -> UNION { choices[k] : k \in ks }] : ks \in SUBSET DOMAIN choices }
WellKeyed(d, choices) == \A k \in DOMAIN d : d[k] \in choices[k]
DictsOf(choices) == { d \in Dicts(choices) : WellKeyed(d, choices) }

(***************************************************************************)
(* Settings.                                                                *)
(***************************************************************************)
\* import_from_settings(attr, default)
import_from_settings(attr, default) == Get(settings, attr, default)

\* Each group is either left at its defaults or overridden.
UrlSettings ==
    { EmptyDict,
      [ LOGIN_REDIRECT_URL |-> "/home",
        LOGIN_REDIRECT_URL_FAILURE |-> "/denied",
        LOGOUT_REDIRECT_URL |-> "/bye",
        OIDC_USE_NONCE |-> FALSE ] }
OtherSettings ==
    { EmptyDict,
      [ OIDC_OP_LOGOUT_URL_METHOD |-> "myapp.provider_logout",
        OIDC_REDIRECT_REQUIRE_HTTPS |-> TRUE,
        OIDC_REDIRECT_ALLOWED_HOSTS |-> {"partner.org"},
        OIDC_RENEW_ID_TOKEN_EXPIRY_SECONDS |-> 60,
        OIDC_AUTH_REQUEST_EXTRA_PARAMS |-> [ prompt |-> "login" ] ] }

\* The deployments considered: every combination of the groups above.
Deployments == { Update(u, o) : u \in UrlSettings, o \in OtherSettings }

(***************************************************************************)
(* django.contrib.auth as the views use it.  The user of a request is kept *)
(* in the session under SESSION_KEY.                                        *)
(***************************************************************************)
SESSION_KEY == "_auth_user_id"

\* request.user.is_authenticated
is_authenticated(sess) == SESSION_KEY \in DOMAIN sess

\* auth.logout(request): request.session.flush() empties the session, and
\* request.user becomes the anonymous user.
auth_logout(sess) == EmptyDict

\* auth.login(request, user): a session that belongs to a different user is
\* flushed first; otherwise the session key is cycled and the data kept.  Then
\* the user is recorded in the session.
auth_login(sess, user) ==
    LET kept == IF SESSION_KEY \in DOMAIN sess /\ sess[SESSION_KEY] # user.pk
                THEN EmptyDict
                ELSE sess
    IN  Put(kept, SESSION_KEY, user.pk)

\* What auth.authenticate(request=..., nonce=...) can do: return no user,
\* return a user (active or not), or let an exception of the backend through.
NoUser == [ kind |-> "none", pk |-> None, is_active |-> FALSE ]
BackendRaises == [ kind |-> "raise", pk |-> None, is_active |-> FALSE ]
Principals ==
    { [ kind |-> "user", pk |-> "alice", is_active |-> TRUE ],
      [ kind |-> "user", pk |-> "bob", is_active |-> TRUE ],
      [ kind |-> "user", pk |-> "bob", is_active |-> FALSE ] }
BackendOutcomes == { NoUser, BackendRaises } \cup Principals

\* The record of a call of the backend (or of no call).
NotCalled == [ called |-> FALSE, nonce |-> None, code |-> None ]
CalledWith(nonce, GET) == [ called |-> TRUE, nonce |-> nonce, code |-> GET["code"] ]

(***************************************************************************)
(* Responses.                                                               *)
(***************************************************************************)
\* HttpResponseRedirect(url), issued by `via`.
HttpResponseRedirect(via, url) == [ status |-> 302, via |-> via, url |-> url ]
\* An exception leaving the handler: SuspiciousOperation is answered with
\* 400 by Django, any other exception with 500.
Raise(exc) ==
    [ status |-> IF exc = "SuspiciousOperation" THEN 400 ELSE 500, via |-> exc, url |-> "" ]
\* View.http_method_not_allowed
HttpResponseNotAllowed == [ status |-> 405, via |-> "http_method_not_allowed", url |-> "" ]
NoResponse == [ status |-> 0, via |-> "", url |-> "" ]

(***************************************************************************)
(* OIDCAuthenticationCallbackView                                           *)
(***************************************************************************)
DefaultExpirySeconds == 900

\* failure_url
failure_url == import_from_settings("LOGIN_REDIRECT_URL_FAILURE", "/")

\* success_url: read from the session at the time of the call.
success_url(sess) ==
    LET next_url == Get(sess, "oidc_login_next", None)
    IN  IF Truthy(next_url) THEN next_url ELSE import_from_settings("LOGIN_REDIRECT_URL", "/")

\* login_failure that renders an error page instead of redirecting.
login_failure_Renders(sess) ==
    [ session |-> sess, resp |-> [ status |-> 200, via |-> "login_failure", url |-> "" ],
      login |-> FALSE ]

\* login_failure(): the session is left as it is.
login_failure(sess) ==
    [ session |-> sess, resp |-> HttpResponseRedirect("login_failure", failure_url),
      login |-> FALSE ]

\* login_success that always uses the default interval.
login_success_DefaultInterval(sess, user, t) ==
    LET s1 == auth_login(sess, user)
        s2 == Put(s1, "oidc_id_token_expiration", t + DefaultExpirySeconds)
    IN  [ session |-> s2, resp |-> HttpResponseRedirect("login_success", success_url(s2)),
          login |-> TRUE ]

\* login_success(): log the user in, store the expiration, redirect.
login_success(sess, user, t) ==
    LET s1 == auth_login(sess, user)
        expiration_interval ==
            import_from_settings("OIDC_RENEW_ID_TOKEN_EXPIRY_SECONDS", DefaultExpirySeconds)
        s2 == Put(s1, "oidc_id_token_expiration", t + expiration_interval)
    IN  [ session |-> s2, resp |-> HttpResponseRedirect("login_success", success_url(s2)),
          login |-> TRUE ]

\* ConsumeNonce that removes the state from the session as well.
ConsumeNonce_AndState(sess) ==
    LET nonce == Get(sess, "oidc_nonce", None)
    IN  [ nonce |-> nonce, session |-> Del(Del(sess, "oidc_nonce"), "oidc_state") ]

\* ConsumeNonce that reads the nonce and leaves it in the session.
ConsumeNonce_Keep(sess) ==
    [ nonce |-> Get(sess, "oidc_nonce", None), session |-> sess ]

\* Lines 66-69: read the nonce and delete it from the session.
ConsumeNonce(sess) ==
    LET nonce == Get(sess, "oidc_nonce", None)
    IN  [ nonce |-> nonce,
          session |-> IF Truthy(nonce) THEN Del(sess, "oidc_nonce") ELSE sess ]

\* ErrorBranch without the defensive logout.
ErrorBranch_NoLogout(sess) == login_failure(sess)

\* Lines 71-79: the OP reported an error.
ErrorBranch(sess) ==
    LET s1 == IF is_authenticated(sess) THEN auth_logout(sess) ELSE sess
    IN  IF is_authenticated(s1)
        THEN [ session |-> s1, resp |-> Raise("AssertionError"), login |-> FALSE ]
        ELSE login_failure(s1)

\* missing_state that tells the cause in the url of the redirect.
missing_state_Leaks(sess) ==
    [ session |-> sess,
      resp |-> HttpResponseRedirect("login_failure", "/?error=missing_state"),
      login |-> FALSE ]

\* missing_state that treats the missing state like a mismatch.
missing_state_Raises(sess) ==
    [ session |-> sess, resp |-> Raise("SuspiciousOperation"), login |-> FALSE ]

\* Lines 86-87: the session holds no oidc_state.
missing_state(sess) == login_failure(sess)

\* state_mismatch answered as an ordinary failure.
state_mismatch_Redirects(sess) == login_failure(sess)

\* Lines 89-91: the state of the callback is not the state of the session.
state_mismatch(sess) ==
    [ session |-> sess, resp |-> Raise("SuspiciousOperation"), login |-> FALSE ]

\* user_is_active without the is_active test.
user_is_active_AnyUser(user) == user.kind = "user"

\* Line 95: `self.user and self.user.is_active`
user_is_active(user) == user.kind = "user" /\ user.is_active

\* Lines 80-96: the callback carries a code and a state.
CodeBranch(sess, GET, nonce, outcome, t) ==
    IF "oidc_state" \notin DOMAIN sess
    THEN missing_state(sess) @@ [ backend |-> NotCalled ]
    ELSE IF GET["state"] # sess["oidc_state"]
    THEN state_mismatch(sess) @@ [ backend |-> NotCalled ]
    ELSE IF outcome.kind = "raise"
    THEN [ session |-> sess, resp |-> Raise("BackendError"), login |-> FALSE,
           backend |-> CalledWith(nonce, GET) ]
    ELSE IF user_is_active(outcome)
    THEN login_success(sess, outcome, t) @@ [ backend |-> CalledWith(nonce, GET) ]
    ELSE login_failure(sess) @@ [ backend |-> CalledWith(nonce, GET) ]

\* get that looks at code and state before it looks at the OP error.
CallbackGet_CodeFirst(sess, GET, outcome, t) ==
    LET c == ConsumeNonce(sess)
    IN  IF "code" \in DOMAIN GET /\ "state" \in DOMAIN GET
        THEN CodeBranch(c.session, GET, c.nonce, outcome, t)
        ELSE IF Truthy(Get(GET, "error", None))
        THEN ErrorBranch(c.session) @@ [ backend |-> NotCalled ]
        ELSE login_failure(c.session) @@ [ backend |-> NotCalled ]

\* get(self, request): the whole handler, as a function of the session, the
\* query, what the backend does if it is called, and the clock.
CallbackGet(sess, GET, outcome, t) ==
    LET c == ConsumeNonce(sess)
    IN  IF Truthy(Get(GET, "error", None))
        THEN ErrorBranch(c.session) @@ [ backend |-> NotCalled ]
        ELSE IF "code" \in DOMAIN GET /\ "state" \in DOMAIN GET
        THEN CodeBranch(c.session, GET, c.nonce, outcome, t)
        ELSE login_failure(c.session) @@ [ backend |-> NotCalled ]

\* Whether the handler gets as far as calling the backend.
ReachesBackend(sess, GET) == CallbackGet(sess, GET, NoUser, 0).backend.called

\* The queries a callback can carry.
CallbackQueries ==
    DictsOf([ error |-> Errors, code |-> Codes, state |-> States ])


(***************************************************************************)
(* get_next_url and django.utils.http.is_safe_url                           *)
(***************************************************************************)
\* The candidate urls of the `next` parameter.
NextUrls ==
    { "", "/dashboard", "https://evil.com/x", "http://example.com/x", "//partner.org/x" }

\* urlparse(url): the scheme and the network location of each candidate.
urlparse(url) ==
    CASE url = "/dashboard"            -> [ scheme |-> "",      netloc |-> "" ]
      [] url = "https://evil.com/x"    -> [ scheme |-> "https", netloc |-> "evil.com" ]
      [] url = "http://example.com/x"  -> [ scheme |-> "http",  netloc |-> "example.com" ]
      [] url = "https://example.com/x" -> [ scheme |-> "https", netloc |-> "example.com" ]
      [] url = "//partner.org/x"       -> [ scheme |-> "",      netloc |-> "partner.org" ]
      [] OTHER                         -> [ scheme |-> "",      netloc |-> "" ]

\* is_safe_url(url, allowed_hosts, require_https): an empty url is unsafe; a
\* scheme without a host is unsafe; a url without a scheme but with a host
\* counts as http; the host, if any, must be allowed and the scheme, if any,
\* must be https (when required) or http or https.
is_safe_url(url, allowed_hosts, require_https) ==
    IF ~Truthy(url) THEN FALSE
    ELSE LET url_info == urlparse(url)
             scheme == IF url_info.scheme = "" /\ url_info.netloc # ""
                       THEN "http" ELSE url_info.scheme
             valid_schemes == IF require_https THEN {"https"} ELSE {"http", "https"}
         IN  /\ ~(url_info.netloc = "" /\ url_info.scheme # "")
             /\ (url_info.netloc = "" \/ url_info.netloc \in allowed_hosts)
             /\ (scheme = "" \/ scheme \in valid_schemes)

\* get_next_url that does not add the host of the request to the allowed hosts.
get_next_url_NoOwnHost(request, redirect_field_name) ==
    LET next_url == Get(request.GET, redirect_field_name, None)
    IN  IF Truthy(next_url)
        THEN LET require_https ==
                     import_from_settings("OIDC_REDIRECT_REQUIRE_HTTPS", request.is_secure)
                 hosts == import_from_settings("OIDC_REDIRECT_ALLOWED_HOSTS", {})
             IN  IF is_safe_url(next_url, hosts, require_https) THEN next_url ELSE None
        ELSE None

\* get_next_url that returns the url without asking is_safe_url.
get_next_url_Unchecked(request, redirect_field_name) ==
    LET next_url == Get(request.GET, redirect_field_name, None)
    IN  IF Truthy(next_url) THEN next_url ELSE None

\* get_next_url(request, redirect_field_name): the url if it is safe, else None.
get_next_url(request, redirect_field_name) ==
    LET next_url == Get(request.GET, redirect_field_name, None)
    IN  IF Truthy(next_url)
        THEN LET require_https ==
                     import_from_settings("OIDC_REDIRECT_REQUIRE_HTTPS", request.is_secure)
                 hosts == import_from_settings("OIDC_REDIRECT_ALLOWED_HOSTS", {})
                              \cup {request.host}
             IN  IF is_safe_url(next_url, hosts, require_https) THEN next_url ELSE None
        ELSE None

(***************************************************************************)
(* OIDCAuthenticationRequestView                                            *)
(***************************************************************************)
\* get_extra_params(request)
get_extra_params == import_from_settings("OIDC_AUTH_REQUEST_EXTRA_PARAMS", EmptyDict)

\* get(self, request): `state` and `nonce` are the values get_random_string
\* returns for them.
AuthRequestGet(sess, request, state, nonce) ==
    LET redirect_field_name == import_from_settings("OIDC_REDIRECT_FIELD_NAME", "next")
        params0 == [ response_type |-> "code",
                     scope |-> import_from_settings("OIDC_RP_SCOPES", "openid email"),
                     client_id |-> "client",
                     redirect_uri |-> "https://example.com/oidc/callback/",
                     state |-> state ]
        params1 == Update(params0, get_extra_params)
        use_nonce == import_from_settings("OIDC_USE_NONCE", TRUE)
        params2 == IF use_nonce THEN Put(params1, "nonce", nonce) ELSE params1
        s1 == IF use_nonce THEN Put(sess, "oidc_nonce", nonce) ELSE sess
        s2 == Put(s1, "oidc_state", state)
        s3 == Put(s2, "oidc_login_next", get_next_url(request, redirect_field_name))
    IN  [ session |-> s3, params |-> params2,
          resp |-> HttpResponseRedirect("authorization_endpoint", "https://op.example/authorize") ]

\* The requests an initiation can be: with or without `next`, over http or https.
AuthRequests ==
    { [ GET |-> q, is_secure |-> sec, host |-> RequestHost ] :
        q \in DictsOf([ next |-> NextUrls ]), sec \in BOOLEAN }

(***************************************************************************)
(* OIDCLogoutView                                                           *)
(***************************************************************************)
\* redirect_url
redirect_url == import_from_settings("LOGOUT_REDIRECT_URL", "/")

\* import_string(logout_from_op)(request): the url the configured builder
\* returns for the request.
OpLogoutUrl == "https://op.example/logout"

\* post that logs out whether or not the user is authenticated.
LogoutPost_AlwaysFlush(sess) ==
    [ session |-> auth_logout(sess),
      resp |-> HttpResponseRedirect("logout", redirect_url),
      builder_called |-> FALSE, builder_user |-> None ]

\* post that logs the user out before it asks the builder for the url.
LogoutPost_LogoutFirst(sess) ==
    LET logout_from_op == import_from_settings("OIDC_OP_LOGOUT_URL_METHOD", "")
        s1 == IF is_authenticated(sess) THEN auth_logout(sess) ELSE sess
    IN  [ session |-> s1,
          resp |-> HttpResponseRedirect("logout",
                       IF is_authenticated(sess) /\ Truthy(logout_from_op)
                       THEN OpLogoutUrl ELSE redirect_url),
          builder_called |-> is_authenticated(sess) /\ Truthy(logout_from_op),
          builder_user |-> Get(s1, SESSION_KEY, None) ]

\* post(self, request); `builder_called` records whether the builder ran and
\* `builder_user` the user of the request it was given (None when it did not
\* run): the builder is called before auth.logout.
LogoutPost(sess) ==
    LET logout_from_op == import_from_settings("OIDC_OP_LOGOUT_URL_METHOD", "")
    IN  IF is_authenticated(sess)
        THEN [ session |-> auth_logout(sess),
               resp |-> HttpResponseRedirect("logout",
                            IF Truthy(logout_from_op) THEN OpLogoutUrl ELSE redirect_url),
               builder_called |-> Truthy(logout_from_op),
               builder_user |-> IF Truthy(logout_from_op)
                                THEN Get(sess, SESSION_KEY, None) ELSE None ]
        ELSE [ session |-> sess,
               resp |-> HttpResponseRedirect("logout", redirect_url),
               builder_called |-> FALSE, builder_user |-> None ]

(***************************************************************************)
(* View.dispatch: a request is handed to the method of the view named like  *)
(* its HTTP method if http_method_names lists it and the view defines it;   *)
(* any other request is answered by http_method_not_allowed.                *)
(***************************************************************************)
Views == { "callback", "authenticate", "logout" }
Methods == { "get", "post" }

http_method_names(view) ==
    CASE view = "callback"     -> { "get" }
      [] view = "authenticate" -> { "get" }
      [] view = "logout"       -> { "get", "post" }

\* The handler methods each view class defines.
defined_handlers(view) ==
    CASE view = "callback"     -> { "get" }
      [] view = "authenticate" -> { "get" }
      [] view = "logout"       -> { "post" }

dispatches(view, method) ==
    method \in http_method_names(view) /\ method \in defined_handlers(view)


(***************************************************************************)
(* The state machine: one action per request handled.                       *)
(***************************************************************************)
Request(q, sec) == [ GET |-> q, is_secure |-> sec, host |-> RequestHost ]

\* `last` when nothing was handled yet.
NoLast ==
    [ op |-> "none", method |-> "", req |-> Request(EmptyDict, TRUE), pre |-> EmptyDict,
      resp |-> NoResponse, backend |-> NotCalled, outcome |-> NoUser, login |-> FALSE,
      time |-> 0, params |-> EmptyDict, consumed |-> FALSE, resubmit |-> FALSE,
      afterConsume |-> FALSE, builder_called |-> FALSE, builder_user |-> None,
      issued |-> None ]

Init ==
    /\ settings \in Deployments
    /\ session = EmptyDict
    /\ now = 0
    /\ last = NoLast
    /\ issued = None

\* GET on the callback route.
Callback ==
    \E q \in CallbackQueries :
      \E outcome \in IF ReachesBackend(session, q) THEN BackendOutcomes ELSE {NoUser} :
        LET r == CallbackGet(session, q, outcome, now)
            req == Request(q, TRUE)
        IN  /\ dispatches("callback", "get")
            /\ session' = r.session
            /\ last' = [ NoLast EXCEPT
                           !.op = "callback", !.method = "get", !.req = req,
                           !.pre = session, !.resp = r.resp, !.backend = r.backend,
                           !.outcome = IF r.backend.called THEN outcome ELSE NoUser,
                           !.login = r.login,
                           !.time = IF r.login THEN now ELSE 0,
                           !.consumed = Truthy(Get(session, "oidc_nonce", None)),
                           !.resubmit = (last.op = "callback" /\ last.req = req),
                           !.afterConsume = (last.op = "callback" /\ last.consumed),
                           !.issued = issued ]
            /\ issued' = None
            /\ UNCHANGED <<settings, now>>

\* GET on the authentication route.
Authenticate ==
    \E req \in AuthRequests, state \in States :
      \E nonce \in IF import_from_settings("OIDC_USE_NONCE", TRUE) THEN Nonces ELSE {None} :
        LET r == AuthRequestGet(session, req, state, nonce)
        IN  /\ dispatches("authenticate", "get")
            /\ session' = r.session
            /\ last' = [ NoLast EXCEPT
                           !.op = "authenticate", !.method = "get", !.req = req,
                           !.pre = session, !.resp = r.resp, !.params = r.params ]
            /\ issued' = Get(r.session, "oidc_nonce", None)
            /\ UNCHANGED <<settings, now>>

\* POST on the logout route.
Logout ==
    LET r == LogoutPost(session)
    IN  /\ dispatches("logout", "post")
        /\ session' = r.session
        /\ last' = [ NoLast EXCEPT
                       !.op = "logout", !.method = "post", !.pre = session,
                       !.resp = r.resp, !.builder_called = r.builder_called,
                       !.builder_user = r.builder_user ]
        /\ UNCHANGED <<settings, now, issued>>

\* A request whose method the view does not handle: 405, nothing changes.
MethodNotAllowed ==
    \E view \in Views, method \in Methods :
        /\ ~dispatches(view, method)
        /\ last' = [ NoLast EXCEPT
                       !.op = view, !.method = method, !.pre = session,
                       !.resp = HttpResponseNotAllowed ]
        /\ UNCHANGED <<settings, session, now, issued>>

\* Time passes.
Tick ==
    /\ now < MaxTime
    /\ now' = now + 1
    /\ UNCHANGED <<settings, session, last, issued>>

Next == Callback \/ Authenticate \/ Logout \/ MethodNotAllowed \/ Tick

Spec == Init /\ [][Next]_vars


(***************************************************************************)
(* Properties of the callback view.                                         *)
(***************************************************************************)
\* The last request was a callback that the handler `get` answered.
CallbackHandled == last.op = "callback" /\ last.method = "get"
\* The query of the last request.
Query == last.req.GET
HasError == Truthy(Get(Query, "error", None))
HasCodeAndState == "code" \in DOMAIN Query /\ "state" \in DOMAIN Query
FailureRedirect == last.resp = HttpResponseRedirect("login_failure", failure_url)
\* The user of a session, None when not authenticated.
UserOf(sess) == Get(sess, SESSION_KEY, None)

\* C1: after every callback, whatever its query and its outcome (success
\* redirect, failure redirect or exception), the session holds no oidc_nonce.
C1_NonceConsumed ==
    CallbackHandled => "oidc_nonce" \notin DOMAIN session

\* A callback that found a nonce and ended in the security exception, with the
\* nonce gone.
C1_Witness ==
    /\ CallbackHandled
    /\ "oidc_nonce" \in DOMAIN last.pre
    /\ last.resp.via = "SuspiciousOperation"
    /\ "oidc_nonce" \notin DOMAIN session

\* C2: a callback with code and state and no OP error, whose state differs
\* from the oidc_state of the session, raises SuspiciousOperation instead of
\* redirecting to the failure url, does not call the backend and establishes
\* no session.
C2_StateMismatchRaises ==
    ( /\ CallbackHandled
      /\ ~HasError
      /\ HasCodeAndState
      /\ "oidc_state" \in DOMAIN last.pre
      /\ last.pre["oidc_state"] # Query["state"] )
    => /\ last.resp = Raise("SuspiciousOperation")
       /\ last.resp.status # 302
       /\ ~last.backend.called
       /\ ~last.login
       /\ UserOf(session) = UserOf(last.pre)

C2_Witness ==
    /\ CallbackHandled
    /\ ~HasError
    /\ HasCodeAndState
    /\ "oidc_state" \in DOMAIN last.pre
    /\ last.pre["oidc_state"] # Query["state"]
    /\ last.resp.via = "SuspiciousOperation"

\* C3: after a callback that carries an OP error, whatever the session was,
\* the session is unauthenticated and the response is the redirect to the
\* failure url.
C3_ErrorLogsOut ==
    (CallbackHandled /\ HasError)
    => /\ ~is_authenticated(session)
       /\ FailureRedirect

\* An OP error arriving on an authenticated session.
C3_Witness ==
    /\ CallbackHandled
    /\ HasError
    /\ is_authenticated(last.pre)
    /\ ~is_authenticated(session)
    /\ FailureRedirect

\* C4: a callback with code and state on a session without oidc_state is
\* answered with the redirect to the failure url and the backend is not called.
C4_NoStoredState ==
    (CallbackHandled /\ HasCodeAndState /\ "oidc_state" \notin DOMAIN last.pre)
    => /\ FailureRedirect
       /\ ~last.backend.called

\* Such a callback without an OP error, so that the code branch decides.
C4_Witness ==
    /\ CallbackHandled
    /\ HasCodeAndState
    /\ ~HasError
    /\ "oidc_state" \notin DOMAIN last.pre
    /\ FailureRedirect


\* C5 (as stated): a callback that repeats the previous callback request (same
\* code and state, same session, nothing in between) never reaches the backend
\* and never establishes a session.
C5_ResubmitNeverReachesBackend ==
    (CallbackHandled /\ last.resubmit /\ HasCodeAndState)
    => /\ ~last.backend.called
       /\ ~last.login

\* The stored state matches and the backend returned an active principal.
ValidCallback ==
    /\ CallbackHandled
    /\ ~HasError
    /\ HasCodeAndState
    /\ "oidc_state" \in DOMAIN last.pre
    /\ last.pre["oidc_state"] = Query["state"]
    /\ last.backend.called
    /\ last.outcome.kind = "user"
    /\ last.outcome.is_active

\* C6 (as stated): a callback with code and the stored state, for which the
\* backend returns an active principal, establishes the session of that
\* principal and redirects to the oidc_login_next stored before the callback,
\* or to the default success url when none is stored.
C6_SuccessRedirectsToStoredNext ==
    ValidCallback
    => /\ last.login
       /\ UserOf(session) = last.outcome.pk
       /\ last.resp =
            HttpResponseRedirect("login_success",
                IF Truthy(Get(last.pre, "oidc_login_next", None))
                THEN last.pre["oidc_login_next"]
                ELSE import_from_settings("LOGIN_REDIRECT_URL", "/"))

\* The callback established a session: it logged a user in, or the session
\* has a user it did not have before.
SessionEstablished ==
    /\ CallbackHandled
    /\ \/ last.login
       \/ (is_authenticated(session) /\ UserOf(session) # UserOf(last.pre))

\* C7: a callback establishes a session only if, in that invocation, there is
\* no OP error, code and state are present, the session holds an oidc_state
\* equal to the state of the callback, and the backend returned an active
\* principal, who is then the user of the session.
C7_SessionOnlyWhenValid ==
    SessionEstablished
    => /\ ValidCallback
       /\ UserOf(session) = last.outcome.pk

C7_Witness ==
    /\ SessionEstablished
    /\ ValidCallback
    /\ ~is_authenticated(last.pre)
    /\ UserOf(session) = last.outcome.pk

\* The validator accepts `url` for a request of this deployment.
Accepted(url, is_secure) ==
    is_safe_url(url,
                import_from_settings("OIDC_REDIRECT_ALLOWED_HOSTS", {}) \cup {RequestHost},
                import_from_settings("OIDC_REDIRECT_REQUIRE_HTTPS", is_secure))

\* C8: after every initiation oidc_login_next is the `next` of the request if
\* the validator accepted it and None otherwise, whatever was stored before;
\* the stored value is at all times None or such an accepted url, and a success
\* redirect goes to such a url or to the default success url.
C8_NextValidatedAtInitiation ==
    /\ (last.op = "authenticate" /\ last.method = "get")
       => /\ "oidc_login_next" \in DOMAIN session
          /\ LET next_url == Get(Query, "next", None)
             IN  session["oidc_login_next"] =
                    IF Accepted(next_url, last.req.is_secure) THEN next_url ELSE None
    /\ "oidc_login_next" \in DOMAIN session
       => \/ session["oidc_login_next"] = None
          \/ \E sec \in BOOLEAN : Accepted(session["oidc_login_next"], sec)
    /\ (CallbackHandled /\ last.login)
       => \/ last.resp.url = import_from_settings("LOGIN_REDIRECT_URL", "/")
          \/ \E sec \in BOOLEAN : Accepted(last.resp.url, sec)

\* An initiation with an unsafe `next` on a session that held a validated one:
\* the stored target is overwritten with None.
C8_Witness ==
    /\ last.op = "authenticate" /\ last.method = "get"
    /\ Truthy(Get(last.pre, "oidc_login_next", None))
    /\ Truthy(Get(Query, "next", None))
    /\ ~Accepted(Query["next"], last.req.is_secure)
    /\ session["oidc_login_next"] = None

\* C9 (as stated): a callback that follows a callback which removed the nonce,
\* and so finds no nonce in the session, never establishes a session (it ends
\* in the redirect to the failure url).
C9_SecondCallbackFails ==
    (CallbackHandled /\ last.afterConsume /\ "oidc_nonce" \notin DOMAIN last.pre)
    => ~last.login

(***************************************************************************)
(* Properties of the logout view.                                           *)
(***************************************************************************)
\* C10 (as stated): a GET and a POST on the logout route are both answered
\* with a redirect to the OP logout url or to the configured logout url.
C10_LogoutRedirects ==
    last.op = "logout"
    => /\ last.resp.status = 302
       /\ last.resp.url \in { OpLogoutUrl, redirect_url }


\* The last request was a POST on the logout route, answered by `post`.
LogoutHandled == last.op = "logout" /\ last.method = "post"

\* C11: a logout on a session that is not authenticated is answered with the
\* redirect to the configured logout url and leaves the session as it was, so
\* that repeating it gives the same response and the same session again.
C11_LogoutWhenLoggedOut ==
    (LogoutHandled /\ ~is_authenticated(last.pre))
    => /\ last.resp = HttpResponseRedirect("logout", redirect_url)
       /\ session = last.pre
       /\ LogoutPost(session).session = session
       /\ LogoutPost(session).resp = last.resp

\* A logout on a session that is not authenticated but holds the data of an
\* initiation.
C11_Witness ==
    /\ LogoutHandled
    /\ ~is_authenticated(last.pre)
    /\ "oidc_state" \in DOMAIN last.pre
    /\ session = last.pre
    /\ last.resp.status = 302

\* C12: a logout on an authenticated session leaves the session
\* unauthenticated; it redirects to the url of the OP logout builder when one
\* is configured and to the configured logout url otherwise; the builder is
\* given the request while its user is still authenticated.
C12_LogoutWhenLoggedIn ==
    (LogoutHandled /\ is_authenticated(last.pre))
    => /\ ~is_authenticated(session)
       /\ IF "OIDC_OP_LOGOUT_URL_METHOD" \in DOMAIN settings
          THEN /\ last.resp = HttpResponseRedirect("logout", OpLogoutUrl)
               /\ last.builder_called
               /\ last.builder_user = UserOf(last.pre)
          ELSE /\ last.resp = HttpResponseRedirect("logout", redirect_url)
               /\ ~last.builder_called

\* A logout of an authenticated user with a builder configured.
C12_Witness ==
    /\ LogoutHandled
    /\ is_authenticated(last.pre)
    /\ last.builder_called
    /\ last.builder_user = UserOf(last.pre)
    /\ ~is_authenticated(session)


(***************************************************************************)
(* The responses of the callback view.                                      *)
(***************************************************************************)
\* The callback carries code and a state that is not the stored oidc_state,
\* and no OP error.
StateMismatch ==
    /\ ~HasError
    /\ HasCodeAndState
    /\ "oidc_state" \in DOMAIN last.pre
    /\ last.pre["oidc_state"] # Query["state"]

SuccessRedirect ==
    last.resp = HttpResponseRedirect("login_success", success_url(session))

\* C13 (as stated): the callback route always answers with a redirect to the
\* success url or the failure url, for every query and every session (the
\* backend not raising).
C13_AlwaysRedirects ==
    (CallbackHandled /\ last.outcome.kind # "raise")
    => /\ last.resp.status = 302
       /\ (SuccessRedirect \/ FailureRedirect)

\* C13 (amended): the callback route answers with a redirect to the success
\* url or the failure url, except that a state mismatch is answered by raising
\* SuspiciousOperation and an exception of the backend is let through.
C13_RedirectsUnlessRaised ==
    CallbackHandled
    => IF StateMismatch
       THEN last.resp = Raise("SuspiciousOperation")
       ELSE IF last.backend.called /\ last.outcome.kind = "raise"
       THEN last.resp = Raise("BackendError")
       ELSE /\ last.resp.status = 302
            /\ IF last.login THEN SuccessRedirect ELSE FailureRedirect

\* A callback answered with the success redirect to a stored target.
C13_Witness ==
    /\ CallbackHandled
    /\ ~StateMismatch
    /\ last.login
    /\ last.resp = HttpResponseRedirect("login_success", "/dashboard")

\* The causes of an ordinary authentication failure.
OrdinaryFailure ==
    \/ HasError
    \/ ~HasCodeAndState
    \/ "oidc_state" \notin DOMAIN last.pre
    \/ (last.backend.called /\ last.outcome.kind = "none")
    \/ (last.backend.called /\ last.outcome.kind = "user" /\ ~last.outcome.is_active)

\* C14: every ordinary authentication failure (OP error, no stored state, no
\* principal, inactive principal, code or state missing) gets the same
\* response, the redirect to the configured failure url, which says nothing
\* about the cause.
C14_FailuresLookAlike ==
    (CallbackHandled /\ OrdinaryFailure)
    => last.resp = HttpResponseRedirect("login_failure", failure_url)

\* A failure caused by an inactive principal.
C14_Witness ==
    /\ CallbackHandled
    /\ last.backend.called
    /\ last.outcome.kind = "user"
    /\ ~last.outcome.is_active
    /\ last.resp = HttpResponseRedirect("login_failure", failure_url)

\* C16: a callback that carries an OP error together with code and state
\* ends in the failure redirect; the backend is not called and the states are
\* not compared, whether they are equal or not.
C16_ErrorBranchFirst ==
    (CallbackHandled /\ HasError /\ HasCodeAndState)
    => /\ FailureRedirect
       /\ ~last.backend.called
       /\ ~last.login

\* An OP error with a state that is not the stored one: no exception.
C16_Witness ==
    /\ CallbackHandled
    /\ HasError
    /\ HasCodeAndState
    /\ "oidc_state" \in DOMAIN last.pre
    /\ last.pre["oidc_state"] # Query["state"]
    /\ FailureRedirect


(***************************************************************************)
(* get_next_url on its own: the settings and the request are drawn, then    *)
(* line 179 stores what get_next_url returns for them.                      *)
(***************************************************************************)
HostSettings ==
    { EmptyDict,
      [ OIDC_REDIRECT_ALLOWED_HOSTS |-> {"example.com"} ],
      [ OIDC_REDIRECT_ALLOWED_HOSTS |-> {"partner.org"} ] }
HttpsSettings ==
    { EmptyDict,
      [ OIDC_REDIRECT_REQUIRE_HTTPS |-> TRUE ],
      [ OIDC_REDIRECT_REQUIRE_HTTPS |-> FALSE ] }
SafetyDeployments == { Update(h, r) : h \in HostSettings, r \in HttpsSettings }

SafetyRequests ==
    { Request(q, sec) :
        q \in DictsOf([ next |-> NextUrls \cup {"https://example.com/x"} ]),
        sec \in BOOLEAN }

InitNextUrl ==
    /\ settings \in SafetyDeployments
    /\ session = EmptyDict
    /\ now = 0
    /\ \E req \in SafetyRequests : last = [ NoLast EXCEPT !.op = "request", !.req = req ]
    /\ issued = None

\* request.session['oidc_login_next'] = get_next_url(request, redirect_field_name)
StoreNextUrl ==
    /\ last.op = "request"
    /\ session' = Put(session, "oidc_login_next", get_next_url(last.req, "next"))
    /\ last' = [ last EXCEPT !.op = "get_next_url", !.pre = session ]
    /\ UNCHANGED <<settings, now, issued>>

SpecNextUrl == InitNextUrl /\ [][StoreNextUrl]_vars

\* C15: get_next_url returns the candidate or None; an absent or empty
\* candidate gives None; /dashboard is returned; https://evil.com/x is not;
\* http://example.com/x is not when https is required; https://example.com/x
\* is returned, also when https is required and whatever the configured hosts
\* are, the host of the request being always allowed.
C15_NextUrlExamples ==
    last.op = "get_next_url"
    => LET url == Get(Query, "next", None)
           result == session["oidc_login_next"]
           require_https ==
               import_from_settings("OIDC_REDIRECT_REQUIRE_HTTPS", last.req.is_secure)
       IN  /\ result \in { None, url }
           /\ ~Truthy(url) => result = None
           /\ url = "/dashboard" => result = url
           /\ url = "https://evil.com/x" => result = None
           /\ (url = "http://example.com/x" /\ require_https) => result = None
           /\ url = "https://example.com/x" => result = url

\* http://example.com/x refused because https is required, the allowed hosts
\* being ["example.com"].
C15_Witness ==
    /\ last.op = "get_next_url"
    /\ Get(Query, "next", None) = "http://example.com/x"
    /\ "OIDC_REDIRECT_ALLOWED_HOSTS" \in DOMAIN settings
    /\ settings["OIDC_REDIRECT_ALLOWED_HOSTS"] = {"example.com"}
    /\ import_from_settings("OIDC_REDIRECT_REQUIRE_HTTPS", FALSE)
    /\ session["oidc_login_next"] = None


(***************************************************************************)
(* The initiation on its own, over the extra authorization parameters a     *)
(* deployment can configure.                                                *)
(***************************************************************************)
ExtraParamSettings ==
    { EmptyDict,
      [ OIDC_AUTH_REQUEST_EXTRA_PARAMS |-> [ prompt |-> "login" ] ],
      [ OIDC_AUTH_REQUEST_EXTRA_PARAMS |-> [ state |-> "fixed" ] ],
      [ OIDC_AUTH_REQUEST_EXTRA_PARAMS |-> [ nonce |-> "fixed" ] ] }
NonceSettings == { EmptyDict, [ OIDC_USE_NONCE |-> FALSE ] }
InitiationDeployments == { Update(x, n) : x \in ExtraParamSettings, n \in NonceSettings }

InitInitiation ==
    /\ settings \in InitiationDeployments
    /\ session = EmptyDict
    /\ now = 0
    /\ last = NoLast
    /\ issued = None

SpecInitiation == InitInitiation /\ [][Authenticate]_vars

\* C17 (as stated): after every initiation the `state` parameter of the
\* redirect to the OP is the oidc_state of the session and, with nonce mode
\* enabled, the `nonce` parameter is the oidc_nonce of the session, whatever
\* extra authorization parameters are configured.
C17_ParamsMatchSession ==
    (last.op = "authenticate" /\ last.method = "get")
    => /\ last.params["state"] = session["oidc_state"]
       /\ import_from_settings("OIDC_USE_NONCE", TRUE)
          => last.params["nonce"] = session["oidc_nonce"]


(***************************************************************************)
(* What a callback leaves of the session.                                   *)
(***************************************************************************)
\* The session holds under `k` what it held before the last request.
Kept(k) ==
    /\ k \in DOMAIN session <=> k \in DOMAIN last.pre
    /\ k \in DOMAIN session => session[k] = last.pre[k]

\* The handler flushed the session: auth.logout in the error branch, or
\* auth.login of a principal other than the user of the session.
Flushed ==
    \/ (HasError /\ is_authenticated(last.pre))
    \/ (last.login /\ is_authenticated(last.pre) /\ UserOf(last.pre) # last.outcome.pk)

\* C18 (as stated): a successful callback sets oidc_id_token_expiration to the
\* time of the call plus the configured interval (900 by default); a callback
\* that ends in FAILURE or in the security exception leaves it unchanged.
C18_ExpirationOnlyOnSuccess ==
    CallbackHandled
    => IF last.login
       THEN /\ "oidc_id_token_expiration" \in DOMAIN session
            /\ session["oidc_id_token_expiration"] =
                 last.time + IF "OIDC_RENEW_ID_TOKEN_EXPIRY_SECONDS" \in DOMAIN settings
                             THEN settings["OIDC_RENEW_ID_TOKEN_EXPIRY_SECONDS"]
                             ELSE DefaultExpirySeconds
       ELSE Kept("oidc_id_token_expiration")

\* C18 (amended): oidc_id_token_expiration is written only by a successful
\* callback, which sets it to the time of the call plus the configured
\* interval (900 by default); every other request leaves it unchanged or, when
\* it flushes the session, removes it, which among the failing callbacks is
\* the one with an OP error on an authenticated session.
C18_ExpirationWrittenOnSuccess ==
    /\ (CallbackHandled /\ last.login)
       => /\ "oidc_id_token_expiration" \in DOMAIN session
          /\ session["oidc_id_token_expiration"] =
               last.time + IF "OIDC_RENEW_ID_TOKEN_EXPIRY_SECONDS" \in DOMAIN settings
                           THEN settings["OIDC_RENEW_ID_TOKEN_EXPIRY_SECONDS"]
                           ELSE DefaultExpirySeconds
    /\ (last.op # "none" /\ ~(CallbackHandled /\ last.login))
       => ( "oidc_id_token_expiration" \in DOMAIN session
            => /\ "oidc_id_token_expiration" \in DOMAIN last.pre
               /\ session["oidc_id_token_expiration"] =
                    last.pre["oidc_id_token_expiration"] )
    /\ (CallbackHandled /\ ~last.login)
       => IF HasError /\ is_authenticated(last.pre)
          THEN "oidc_id_token_expiration" \notin DOMAIN session
          ELSE Kept("oidc_id_token_expiration")

\* A login at time 1 under a configured interval of 60.
C18_Witness ==
    /\ CallbackHandled
    /\ last.login
    /\ last.time = 1
    /\ "OIDC_RENEW_ID_TOKEN_EXPIRY_SECONDS" \in DOMAIN settings
    /\ session["oidc_id_token_expiration"] = 61

\* C19 (as stated): on every path of a callback oidc_state and
\* oidc_login_next keep the values they had, and oidc_nonce is the only key
\* that is removed from the session.
C19_StateAndNextKept ==
    CallbackHandled
    => /\ Kept("oidc_state")
       /\ Kept("oidc_login_next")
       /\ (DOMAIN last.pre) \ (DOMAIN session) \subseteq { "oidc_nonce" }

\* C19 (amended): a callback keeps oidc_state and oidc_login_next as they were
\* and removes no key but oidc_nonce, except when the handler's call of
\* auth.logout (OP error on an authenticated session) or of auth.login for a
\* principal other than the user of the session flushes the session, which
\* removes both.
C19_KeptUnlessFlushed ==
    CallbackHandled
    => IF Flushed
       THEN /\ "oidc_state" \notin DOMAIN session
            /\ "oidc_login_next" \notin DOMAIN session
       ELSE /\ Kept("oidc_state")
            /\ Kept("oidc_login_next")
            /\ (DOMAIN last.pre) \ (DOMAIN session) \subseteq { "oidc_nonce" }

\* A successful callback after which the state and the target are still there.
C19_Witness ==
    /\ CallbackHandled
    /\ last.login
    /\ ~Flushed
    /\ "oidc_nonce" \in DOMAIN last.pre
    /\ "oidc_state" \in DOMAIN session
    /\ session["oidc_state"] = last.pre["oidc_state"]
    /\ Get(session, "oidc_login_next", None) = "/dashboard"


(***************************************************************************)
(* The nonce the backend is given.                                          *)
(***************************************************************************)
\* C20: a callback that calls the backend (it does so once, at line 93) hands
\* it the nonce stored by the most recent initiation if no callback has
\* arrived since that initiation, and None otherwise; so the nonce of an
\* initiation is handed to the backend by at most one callback.
C20_NonceHandedOnce ==
    (CallbackHandled /\ last.backend.called)
    => last.backend.nonce = last.issued

\* The second callback after an initiation reaches the backend, without the
\* nonce that the first one was given.
C20_Witness ==
    /\ CallbackHandled
    /\ last.backend.called
    /\ last.afterConsume
    /\ last.issued = None
    /\ last.backend.nonce = None
    /\ "oidc_state" \in DOMAIN last.pre

=============================================================================
